---- MODULE Spec2Model ----
(***************************************************************************)
(* Model of the SOL next-day-high predictor: the time normaliser and       *)
(* feature builder of preprocessing/feature_engineering.py, the Kraken     *)
(* fetcher of fetch/kraken_ohlc_solusd.py and the request handlers of      *)
(* app/main.py.                                                            *)
(*                                                                         *)
(* Conventions.  A float is a record [k, v]: k = "fin" with v the value in *)
(* thousandths (fixed point; division truncates), or k = "nan", "inf",     *)
(* "ninf" with v = 0.  Python's None is [k |-> "none", v |-> 0].  A time   *)
(* value is a record [repr, inst, tz]: repr = "str" is the ISO string as   *)
(* handed in, "ts" a parsed pandas datetime64 value, "obj" a Python        *)
(* datetime held in an object column; inst is the instant (a day number,   *)
(* read on the UTC clock), tz is "naive", "utc" or, for a string that does *)
(* not parse, "bad".  A DataFrame is [cols, rows]: rows are functions from *)
(* the column names in cols to cell values.                                *)
(***************************************************************************)
EXTENDS Integers, Sequences, FiniteSets, TLC

\* ------------------------------------------------------------- bounds
\* Longest candle list whose candles are chosen freely.
MaxShort == 3
\* Instants the free candles draw from.
MaxInst == 2
\* Candles beyond MIN_ROWS in the longest patterned candle list.
MaxExtra == 2

\* ------------------------------------------------- program constants
\* main.py: len(req.candles) < 21, len(df) < 21, len(df_cut) < 21
MIN_ROWS == 21
\* feature_engineering.py: _ema(df["close"], 3), _sma(df["open"], 3)
SPAN3 == 3
\* feature_engineering.py: _sma(df["open"], 7)
WINDOW7 == 7
\* feature_engineering.py: _sma(df["volume"], 21)
WINDOW21 == 21

\* feature_engineering.py: FINAL_FEATURES, the order the model expects
FINAL_FEATURES ==
    << "close", "open", "low", "close_ema3", "low_ema3", "open_sma3",
       "open_sma7", "high_lag1", "high_lag2", "low_lag1", "low_lag2",
       "close_lag3", "volume", "volume_sma21", "month" >>

\* ------------------------------------------------------------- floats
F(n) == [k |-> "fin", v |-> n]
NaN == [k |-> "nan", v |-> 0]
Inf == [k |-> "inf", v |-> 0]
NInf == [k |-> "ninf", v |-> 0]
None == [k |-> "none", v |-> 0]

\* np.isfinite
isfinite(x) == x.k = "fin"

\* pd.isna: NaN and None are both missing
isna(x) == x.k \in {"nan", "none"}

\* IEEE addition
FAdd(a, b) ==
    IF a.k = "nan" \/ b.k = "nan" THEN NaN
    ELSE IF a.k = "fin" /\ b.k = "fin" THEN F(a.v + b.v)
    ELSE IF a.k = "fin" THEN b
    ELSE IF b.k = "fin" THEN a
    ELSE IF a.k = b.k THEN a
    ELSE NaN

\* IEEE multiplication (fixed point: the product of two thousandths)
FMul(a, b) ==
    LET sgn(x) == IF x.k = "ninf" \/ (x.k = "fin" /\ x.v < 0) THEN -1
                  ELSE IF x.k = "fin" /\ x.v = 0 THEN 0 ELSE 1
    IN  IF a.k = "nan" \/ b.k = "nan" THEN NaN
        ELSE IF a.k = "fin" /\ b.k = "fin" THEN F((a.v * b.v) \div 1000)
        ELSE IF sgn(a) * sgn(b) = 0 THEN NaN
        ELSE IF sgn(a) * sgn(b) > 0 THEN Inf
        ELSE NInf

\* The Taylor series of exp at x thousandths, summed until its terms vanish.
RECURSIVE ExpSeries(_, _, _, _)
ExpSeries(x, n, term, acc) ==
    IF term = 0 \/ n > 30 THEN acc
    ELSE LET p == term * x
             q == 1000 * n
             next == IF p >= 0 THEN p \div q ELSE -((-p) \div q)
         IN  ExpSeries(x, n + 1, next, acc + term)

\* np.exp
FExp(a) ==
    IF a.k = "nan" THEN NaN
    ELSE IF a.k = "inf" THEN Inf
    ELSE IF a.k = "ninf" THEN F(0)
    ELSE F(ExpSeries(a.v, 1, 1000, 0))

\* --------------------------------------------------------- sequences
Range(s) == {s[i] : i \in DOMAIN s}

RECURSIVE Perms(_)
Perms(S) ==
    IF S = {} THEN {<< >>}
    ELSE UNION {{<<x>> \o p : p \in Perms(S \ {x})} : x \in S}

Min(S) == CHOOSE m \in S : \A y \in S : m <= y

\* Sum of the finite cells of a sequence of floats, and how many there are.
RECURSIVE SumFin(_)
SumFin(s) ==
    IF s = << >> THEN 0
    ELSE (IF isfinite(Head(s)) THEN Head(s).v ELSE 0) + SumFin(Tail(s))

CountFin(s) == Cardinality({i \in DOMAIN s : isfinite(s[i])})

\* -------------------------------------------------------- timestamps
Str(inst, tz) == [repr |-> "str", inst |-> inst, tz |-> tz]

\* Timestamp.month, on a calendar of twelve 30-day months
MonthOf(t) == (((t.inst - 1) \div 30) % 12) + 1

Column(df, c) == [i \in DOMAIN df.rows |-> df.rows[i][c]]

\* df[c] = values: the column is replaced, or added when new
SetColumn(df, c, vals) ==
    [cols |-> df.cols \cup {c},
     rows |-> [i \in DOMAIN df.rows |->
                 [d \in df.cols \cup {c} |->
                    IF d = c THEN vals[i] ELSE df.rows[i][d]]]]

\* df.iloc[indexer].reset_index(drop=True)
Take(df, indexer) ==
    [cols |-> df.cols,
     rows |-> [i \in DOMAIN indexer |-> df.rows[indexer[i]]]]

\* pd.to_datetime(column) without utc=True: the outcomes it may have.
\* All strings naive: a naive datetime64 column.  All strings "...Z": a
\* UTC-aware column.  A string that does not parse raises.  Naive and
\* aware strings mixed: pandas 2 raises in to_datetime; pandas 1 returns an
\* object column of datetime objects, which the sort that follows cannot
\* compare.
to_datetime(col) ==
    LET tzs == {col[i].tz : i \in DOMAIN col}
    IN  IF "bad" \in tzs
        THEN {[ok |-> FALSE, exc |-> "ValueError", col |-> col]}
        ELSE IF Cardinality(tzs) <= 1
        THEN {[ok |-> TRUE, exc |-> "",
               col |-> [i \in DOMAIN col |-> [col[i] EXCEPT !.repr = "ts"]]]}
        ELSE {[ok |-> FALSE, exc |-> "ValueError", col |-> col],
              [ok |-> TRUE, exc |-> "",
               col |-> [i \in DOMAIN col |-> [col[i] EXCEPT !.repr = "obj"]]]}

\* pd.to_datetime(x, utc=True): naive is read as UTC, aware is converted
to_datetime_utc(t) == [repr |-> "ts", inst |-> t.inst, tz |-> "utc"]

RECURSIVE ArgsortsOf(_, _)
ArgsortsOf(keys, rem) ==
    IF rem = {} THEN {<< >>}
    ELSE LET m == Min({keys[i] : i \in rem})
             G == {i \in rem : keys[i] = m}
         IN  {p \o q : p \in Perms(G), q \in ArgsortsOf(keys, rem \ G)}

\* The mutant of Argsorts: the rows are left in the order given.
ArgsortsUnsorted(keys) == {[i \in DOMAIN keys |-> i]}

\* The indexers sort_values(time_col) may use.  The default kind is
\* quicksort, which is not stable: rows with equal keys come out in any
\* order.
Argsorts(keys) == ArgsortsOf(keys, DOMAIN keys)

\* The indexer of a stable sort (Python's list.sort)
RECURSIVE StableArgsortOf(_, _)
StableArgsortOf(keys, rem) ==
    IF rem = {} THEN << >>
    ELSE LET m == Min({keys[i] : i \in rem})
             i0 == Min({i \in rem : keys[i] = m})
         IN  <<i0>> \o StableArgsortOf(keys, rem \ {i0})

StableArgsort(keys) == StableArgsortOf(keys, DOMAIN keys)

\* ensure_time_and_sort(df, time_col): the outcomes it may have, each
\* [ok, exc, df, caller, indexer]: df is the frame returned, caller the
\* caller's frame after the call, indexer the order the sort chose.
ensure_time_and_sort(df, time_col) ==
    IF time_col \notin df.cols /\ "time" \notin df.cols
    THEN {[ok |-> FALSE, exc |-> "ValueError", df |-> df, caller |-> df,
           indexer |-> << >>]}
    ELSE
      LET df1 == IF time_col \notin df.cols
                 THEN SetColumn(df, time_col, Column(df, "time"))
                 ELSE df
      IN  UNION {
            IF ~parsed.ok
            THEN {[ok |-> FALSE, exc |-> parsed.exc, df |-> df1,
                   caller |-> df1, indexer |-> << >>]}
            ELSE
              LET df2 == SetColumn(df1, time_col, parsed.col)
              IN  IF \E i \in DOMAIN parsed.col : parsed.col[i].repr = "obj"
                  THEN {[ok |-> FALSE, exc |-> "TypeError", df |-> df2,
                         caller |-> df2, indexer |-> << >>]}
                  ELSE
                    {LET sorted == Take(df2, ix)
                     IN  [ok |-> TRUE, exc |-> "",
                          df |-> SetColumn(sorted, "month",
                                    [i \in DOMAIN sorted.rows |->
                                        MonthOf(sorted.rows[i][time_col])]),
                          caller |-> df2, indexer |-> ix]
                     : ix \in Argsorts([i \in DOMAIN parsed.col |->
                                           parsed.col[i].inst])}
            : parsed \in to_datetime(Column(df1, time_col))}

\* ---------------------------------------------------- feature builder
SubCol(col, lo, hi) == [j \in 1..(hi - lo + 1) |-> col[lo + j - 1]]

\* series.ewm(span=span, adjust=False).mean(): y[1] = x[1] and
\* y[t] = (1 - a) * y[t-1] + a * x[t] with a = 2 / (span + 1); a missing
\* x[t] repeats y[t-1].
RECURSIVE EmaFrom(_, _, _)
EmaFrom(col, span, acc) ==
    IF Len(acc) = Len(col) THEN acc
    ELSE LET t == Len(acc) + 1
             y == IF t = 1 THEN col[1]
                  ELSE IF ~isfinite(col[t]) THEN acc[t - 1]
                  ELSE IF ~isfinite(acc[t - 1]) THEN col[t]
                  ELSE F(((span - 1) * acc[t - 1].v + 2 * col[t].v)
                            \div (span + 1))
         IN  EmaFrom(col, span, Append(acc, y))

_ema(col, span) == EmaFrom(col, span, << >>)

\* series.rolling(window, min_periods=1).mean(): the mean of the values
\* present among the last `window` rows, missing when none is present
_sma(col, window) ==
    [t \in DOMAIN col |->
        LET w == SubCol(col, IF t > window THEN t - window + 1 ELSE 1, t)
            n == CountFin(w)
        IN  IF n < 1 THEN NaN ELSE F(SumFin(w) \div n)]

\* series.shift(n)
shift(col, n) == [t \in DOMAIN col |-> IF t > n THEN col[t - n] ELSE NaN]

OHLC == {"open", "high", "low", "close"}

Derived ==
    {"close_ema3", "low_ema3", "open_sma3", "open_sma7", "volume_sma21",
     "high_lag1", "high_lag2", "low_lag1", "low_lag2", "close_lag3"}

\* build_features_from_ohlcv(df): the outcomes it may have, each
\* [ok, exc, df, caller].
build_features_from_ohlcv(df) ==
    IF ~(OHLC \subseteq df.cols)
    THEN {[ok |-> FALSE, exc |-> "ValueError", df |-> df, caller |-> df]}
    ELSE
      {IF ~s.ok
       THEN [ok |-> FALSE, exc |-> s.exc, df |-> s.df, caller |-> s.caller]
       ELSE
         LET d == s.df
             close_ema3 == _ema(Column(d, "close"), SPAN3)
             low_ema3 == _ema(Column(d, "low"), SPAN3)
             open_sma3 == _sma(Column(d, "open"), SPAN3)
             open_sma7 == _sma(Column(d, "open"), WINDOW7)
             volume_sma21 == IF "volume" \in d.cols
                             THEN _sma(Column(d, "volume"), WINDOW21)
                             ELSE [t \in DOMAIN d.rows |-> NaN]
             high_lag1 == shift(Column(d, "high"), 1)
             high_lag2 == shift(Column(d, "high"), 2)
             low_lag1 == shift(Column(d, "low"), 1)
             low_lag2 == shift(Column(d, "low"), 2)
             close_lag3 == shift(Column(d, "close"), 3)
         IN  [ok |-> TRUE, exc |-> "",
              df |-> [cols |-> d.cols \cup Derived,
                      rows |-> [t \in DOMAIN d.rows |->
                        [c \in d.cols \cup Derived |->
                           CASE c = "close_ema3" -> close_ema3[t]
                             [] c = "low_ema3" -> low_ema3[t]
                             [] c = "open_sma3" -> open_sma3[t]
                             [] c = "open_sma7" -> open_sma7[t]
                             [] c = "volume_sma21" -> volume_sma21[t]
                             [] c = "high_lag1" -> high_lag1[t]
                             [] c = "high_lag2" -> high_lag2[t]
                             [] c = "low_lag1" -> low_lag1[t]
                             [] c = "low_lag2" -> low_lag2[t]
                             [] c = "close_lag3" -> close_lag3[t]
                             [] OTHER -> d.rows[t][c]]]],
              caller |-> s.caller]
       : s \in ensure_time_and_sort(df, "timeOpen")}

\* A cell of a feature column is missing (month is an integer, never so).
CellNA(row, c) == IF c = "month" THEN FALSE ELSE isna(row[c])

\* The mutant of UsablePositions: no row is dropped.
UsableAll(df) == DOMAIN df.rows

\* The positions of df that dropna(subset=FINAL_FEATURES) keeps.
UsablePositions(df) ==
    {i \in DOMAIN df.rows :
        \A j \in DOMAIN FINAL_FEATURES : ~CellNA(df.rows[i], FINAL_FEATURES[j])}

\* The sequence of the elements of a set of integers, ascending
RECURSIVE Ascending(_)
Ascending(S) ==
    IF S = {} THEN << >> ELSE <<Min(S)>> \o Ascending(S \ {Min(S)})

\* _prepare_features(df_in): the usable rows, restricted to FINAL_FEATURES.
\* The outcomes it may have, each [ok, exc, X, kept, caller]; kept lists the
\* positions of the sorted frame the rows of X come from.
_prepare_features(df_in) ==
    LET empty == [cols |-> Range(FINAL_FEATURES), rows |-> << >>]
    IN  {IF ~b.ok
         THEN [ok |-> FALSE, exc |-> b.exc, X |-> empty, kept |-> << >>,
               caller |-> b.caller]
         ELSE IF ~(Range(FINAL_FEATURES) \subseteq b.df.cols)
         THEN [ok |-> FALSE, exc |-> "KeyError", X |-> empty, kept |-> << >>,
               caller |-> b.caller]
         ELSE
           LET kept == Ascending(UsablePositions(b.df))
           IN  [ok |-> TRUE, exc |-> "",
                X |-> [cols |-> Range(FINAL_FEATURES),
                       rows |-> [i \in DOMAIN kept |->
                                   [c \in Range(FINAL_FEATURES) |->
                                       b.df.rows[kept[i]][c]]]],
                kept |-> kept,
                caller |-> b.caller]
         : b \in build_features_from_ohlcv(df_in)}

\* ------------------------------------------------------- target codec
\* HTTPException(400, "Cannot invert prediction without a valid last high.")
InversionError == "InversionError"
\* HTTPException(400, "Unknown target mode: ...")
UnsupportedModeError == "UnsupportedModeError"

\* The mutant of _invert_prediction: last_high is not validated.
InvertUnchecked(yhat_raw, last_high, mode) ==
    IF mode = "level" THEN [ok |-> TRUE, err |-> "", value |-> yhat_raw]
    ELSE IF mode = "delta"
    THEN [ok |-> TRUE, err |-> "", value |-> FAdd(last_high, yhat_raw)]
    ELSE IF mode = "logdiff"
    THEN [ok |-> TRUE, err |-> "", value |-> FMul(FExp(yhat_raw), last_high)]
    ELSE [ok |-> FALSE, err |-> UnsupportedModeError, value |-> NaN]

\* The mutant of _invert_prediction: delta and logdiff are swapped.
InvertSwapped(yhat_raw, last_high, mode) ==
    IF mode = "level" THEN [ok |-> TRUE, err |-> "", value |-> yhat_raw]
    ELSE IF last_high.k = "none" \/ ~isfinite(last_high)
    THEN [ok |-> FALSE, err |-> InversionError, value |-> NaN]
    ELSE IF mode = "logdiff"
    THEN [ok |-> TRUE, err |-> "", value |-> FAdd(last_high, yhat_raw)]
    ELSE IF mode = "delta"
    THEN [ok |-> TRUE, err |-> "", value |-> FMul(FExp(yhat_raw), last_high)]
    ELSE [ok |-> FALSE, err |-> UnsupportedModeError, value |-> NaN]

\* _invert_prediction(yhat_raw, last_high, mode).  Returns [ok, err, value].
_invert_prediction(yhat_raw, last_high, mode) ==
    IF mode = "level" THEN [ok |-> TRUE, err |-> "", value |-> yhat_raw]
    ELSE IF last_high.k = "none" \/ ~isfinite(last_high)
    THEN [ok |-> FALSE, err |-> InversionError, value |-> NaN]
    ELSE IF mode = "delta"
    THEN [ok |-> TRUE, err |-> "", value |-> FAdd(last_high, yhat_raw)]
    ELSE IF mode = "logdiff"
    THEN [ok |-> TRUE, err |-> "", value |-> FMul(FExp(yhat_raw), last_high)]
    ELSE [ok |-> FALSE, err |-> UnsupportedModeError, value |-> NaN]

\* ------------------------------------------------------------ fetcher
\* get_recent_candles(token, n): the last n rows of Kraken's payload, each
\* turned into a candle with a "...Z" timeOpen, malformed rows skipped,
\* then sorted by timeOpen (list.sort is stable).  Returns [ok, rows].
get_recent_candles(payload, n) ==
    IF n <= 0 THEN [ok |-> TRUE, rows |-> << >>]
    ELSE IF ~payload.ok \/ payload.rows = << >>
    THEN [ok |-> FALSE, rows |-> << >>]
    ELSE
      LET len == Len(payload.rows)
          last == SubSeq(payload.rows, IF len > n THEN len - n + 1 ELSE 1, len)
          good == SelectSeq(last, LAMBDA r : ~r.malformed)
          out == [i \in DOMAIN good |->
                    [timeOpen |-> Str(good[i].time, "utc"),
                     open |-> good[i].open, high |-> good[i].high,
                     low |-> good[i].low, close |-> good[i].close,
                     volume |-> good[i].volume]]
          order == StableArgsort([i \in DOMAIN out |-> out[i].timeOpen.inst])
      IN  [ok |-> TRUE, rows |-> [i \in DOMAIN order |-> out[order[i]]]]

\* ------------------------------------------------------------ handlers
CandleCols == {"timeOpen", "open", "high", "low", "close", "volume"}

\* pd.DataFrame(rows) of candle dicts: a missing volume (None) is NA
DataFrame(candles) ==
    [cols |-> IF candles = << >> THEN {} ELSE CandleCols,
     rows |-> [i \in DOMAIN candles |->
                 [c \in CandleCols |->
                    IF c = "volume" /\ candles[i][c].k = "none" THEN NaN
                    ELSE candles[i][c]]]]

\* The mutant of ModeOf: the request's mode is ignored.
ModeDefaultOnly(target_mode, default) == default

\* (target_mode or MODEL_TARGET_MODE).lower()
ModeOf(target_mode, default) == IF target_mode = "" THEN default ELSE target_mode

NoRow == [c \in {} |-> 0]

\* A response: status is the HTTP status, err names the failure.
Response(status, err) ==
    [status |-> status, err |-> err, predicted_high |-> NaN,
     target_mode |-> "", last_known_high |-> None,
     feature_vector_tail |-> NoRow, history_rows_used |-> 0,
     calls |-> << >>]

\* The mutant of window_at_or_before: candles strictly before the anchor.
WindowStrictlyBefore(df, time_col, anchor) ==
    LET kept == Ascending({i \in DOMAIN df.rows :
                    to_datetime_utc(df.rows[i][time_col]).inst < anchor.inst})
        df_cut == Take(df, kept)
    IN  IF kept = << >>
        THEN [status |-> 404, err |-> "NoDataBeforeAnchorError", df_cut |-> df_cut]
        ELSE IF Len(df_cut.rows) < MIN_ROWS
        THEN [status |-> 400, err |-> "InsufficientHistoryError", df_cut |-> df_cut]
        ELSE [status |-> 200, err |-> "", df_cut |-> df_cut]

\* df.loc[ts <= anchor] of predict_sol_at, with its two checks.
\* Returns [status, err, df_cut].
window_at_or_before(df, time_col, anchor) ==
    LET ts == [i \in DOMAIN df.rows |-> to_datetime_utc(df.rows[i][time_col])]
        mask == [i \in DOMAIN df.rows |-> ts[i].inst <= anchor.inst]
        kept == Ascending({i \in DOMAIN df.rows : mask[i]})
        df_cut == Take(df, kept)
    IN  IF ~(\E i \in DOMAIN mask : mask[i])
        THEN [status |-> 404, err |-> "NoDataBeforeAnchorError", df_cut |-> df_cut]
        ELSE IF Len(df_cut.rows) < MIN_ROWS
        THEN [status |-> 400, err |-> "InsufficientHistoryError", df_cut |-> df_cut]
        ELSE [status |-> 200, err |-> "", df_cut |-> df_cut]

\* The mutant of PredictTail that decodes before it asks the model: a
\* failure of the inversion is answered without a call of model.predict.
PredictTailDecodeFirst(df, mode, outcome) ==
    LET last_high == df.rows[Len(df.rows)]["high"]
        probe == _invert_prediction(F(0), last_high, mode)
    IN  {IF ~p.ok THEN Response(500, p.exc)
         ELSE IF p.X.rows = << >>
         THEN Response(400, "InsufficientHistoryError")
         ELSE IF ~probe.ok THEN Response(400, probe.err)
         ELSE
           LET x_tail == p.X.rows[Len(p.X.rows)]
           IN  IF outcome.k = "raise"
               THEN [Response(500, "ModelInferenceError")
                       EXCEPT !.calls = <<x_tail>>]
               ELSE [status |-> 200, err |-> "",
                     predicted_high |->
                        _invert_prediction(outcome, last_high, mode).value,
                     target_mode |-> mode,
                     last_known_high |-> last_high,
                     feature_vector_tail |-> x_tail,
                     history_rows_used |-> Len(df.rows),
                     calls |-> <<x_tail>>]
         : p \in _prepare_features(df)}

\* The mutant of PredictTail that asks the model again when it fails, and
\* decodes a default output when it fails twice.
PredictTailRetry(df, mode, outcome) ==
    LET last_high == df.rows[Len(df.rows)]["high"]
    IN  {IF ~p.ok THEN Response(500, p.exc)
         ELSE IF p.X.rows = << >>
         THEN Response(400, "InsufficientHistoryError")
         ELSE
           LET x_tail == p.X.rows[Len(p.X.rows)]
               raised == outcome.k = "raise"
               inv == _invert_prediction(IF raised THEN F(0) ELSE outcome,
                                         last_high, mode)
           IN  IF ~inv.ok
               THEN [Response(400, inv.err) EXCEPT !.calls = <<x_tail>>]
               ELSE [status |-> 200, err |-> "",
                     predicted_high |-> inv.value,
                     target_mode |-> mode,
                     last_known_high |-> last_high,
                     feature_vector_tail |-> x_tail,
                     history_rows_used |-> Len(df.rows),
                     calls |-> IF raised THEN <<x_tail, x_tail>>
                               ELSE <<x_tail>>]
         : p \in _prepare_features(df)}

\* The common tail of the three handlers, from last_high on: features,
\* the model, the inversion, the response.  df is the normalized (and cut)
\* frame, outcome what model.predict does: a raw output, or "raise".
\* The set of responses it may give; calls lists the rows model.predict
\* was called with.
PredictTail(df, mode, outcome) ==
    LET last_high == df.rows[Len(df.rows)]["high"]
    IN  {IF ~p.ok THEN Response(500, p.exc)
         ELSE IF p.X.rows = << >>
         THEN Response(400, "InsufficientHistoryError")
         ELSE
           LET x_tail == p.X.rows[Len(p.X.rows)]
           IN  IF outcome.k = "raise"
               THEN [Response(500, "ModelInferenceError")
                       EXCEPT !.calls = <<x_tail>>]
               ELSE
                 LET inv == _invert_prediction(outcome, last_high, mode)
                 IN  IF ~inv.ok
                     THEN [Response(400, inv.err) EXCEPT !.calls = <<x_tail>>]
                     ELSE [status |-> 200, err |-> "",
                           predicted_high |-> inv.value,
                           target_mode |-> mode,
                           last_known_high |-> last_high,
                           feature_vector_tail |-> x_tail,
                           history_rows_used |-> Len(df.rows),
                           calls |-> <<x_tail>>]
         : p \in _prepare_features(df)}

\* predict(req): POST /predict.  The set of responses it may give.
predict(candles, target_mode, default, outcome) ==
    LET mode == ModeOf(target_mode, default)
    IN  IF Len(candles) < MIN_ROWS
        THEN {Response(400, "InsufficientHistoryError")}
        ELSE
          LET df0 == DataFrame(candles)
          IN  IF ~({"timeOpen"} \cup OHLC \subseteq df0.cols)
              THEN {Response(400, "MalformedInputError")}
              ELSE UNION {
                IF ~s.ok THEN {Response(500, s.exc)}
                ELSE PredictTail(s.df, mode, outcome)
                : s \in ensure_time_and_sort(df0, "timeOpen")}

\* predict_sol(n, target_mode): GET /predict/sol
predict_sol(payload, n, target_mode, default, outcome) ==
    LET mode == ModeOf(target_mode, default)
        f == get_recent_candles(payload, n)
    IN  IF ~f.ok THEN {Response(502, "FetcherFailed")}
        ELSE UNION {
          IF ~s.ok THEN {Response(500, s.exc)}
          ELSE IF Len(s.df.rows) < MIN_ROWS
          THEN {Response(400, "InsufficientHistoryError")}
          ELSE PredictTail(s.df, mode, outcome)
          : s \in ensure_time_and_sort(DataFrame(f.rows), "timeOpen")}

NoFrame == [cols |-> {}, rows |-> << >>]

\* predict_sol_at(date, n, target_mode): GET /predict/sol/at.  The set of
\* [resp, df, df_cut] it may end with: the response, the normalized frame
\* and its cut.
predict_sol_at(date, payload, n, target_mode, default, outcome) ==
    LET mode == ModeOf(target_mode, default)
        f == get_recent_candles(payload, n)
    IN  IF ~f.ok
        THEN {[resp |-> Response(502, "FetcherFailed"), df |-> NoFrame,
               df_cut |-> NoFrame]}
        ELSE UNION {
          IF ~s.ok
          THEN {[resp |-> Response(500, s.exc), df |-> NoFrame,
                 df_cut |-> NoFrame]}
          ELSE IF date.tz = "bad"
          THEN {[resp |-> Response(400, "InvalidDate"), df |-> s.df,
                 df_cut |-> NoFrame]}
          ELSE
            LET w == window_at_or_before(s.df, "timeOpen", to_datetime_utc(date))
            IN  IF w.status # 200
                THEN {[resp |-> Response(w.status, w.err), df |-> s.df,
                       df_cut |-> w.df_cut]}
                ELSE {[resp |-> r, df |-> s.df, df_cut |-> w.df_cut] :
                        r \in PredictTail(w.df_cut, mode, outcome)}
          : s \in ensure_time_and_sort(DataFrame(f.rows), "timeOpen")}

\* ------------------------------------------------------------- inputs
\* The i-th candle of a list: its prices tell the candles apart.
Candle(i, inst, tz, hasVolume) ==
    [timeOpen |-> Str(inst, tz),
     open |-> F(1000 * (50 + i)), high |-> F(1000 * (100 + i)),
     low |-> F(1000 * (40 + i)), close |-> F(1000 * (60 + i)),
     volume |-> IF hasVolume THEN F(1000 * (1 + (i % 3))) ELSE None]

\* Candle lists of up to MaxShort candles with freely chosen timestamps.
FreeCandles ==
    UNION {
      {[i \in 1..n |-> Candle(i, c[i][1], c[i][2], TRUE)] :
         c \in [1..n -> (1..MaxInst) \X {"naive", "utc", "bad"}]}
      : n \in 0..MaxShort}

Orders == {"asc", "desc"}
VolumePatterns == {"all", "none", "last", "first"}

\* The instant of candle i of n: ascending or descending days, the two
\* latest candles on the same day when dup.
PatternInst(i, n, order, dup) ==
    LET d == IF order = "asc" THEN i ELSE n + 1 - i
    IN  IF dup /\ d = n /\ n > 1 THEN n - 1 ELSE d

PatternHasVolume(i, n, vol) ==
    CASE vol = "all" -> TRUE
      [] vol = "none" -> FALSE
      [] vol = "last" -> i # n
      [] vol = "first" -> i # 1

\* The time zone of candle i of n: one kind throughout, or the last candle
\* naive ("mixed") or unparseable ("bad") among UTC ones.
PatternTz(i, n, tz) ==
    CASE tz = "mixed" -> IF i = n THEN "naive" ELSE "utc"
      [] tz = "bad" -> IF i = n THEN "bad" ELSE "utc"
      [] OTHER -> tz

PatternList(n, order, dup, vol, tz) ==
    [i \in 1..n |->
        Candle(i, PatternInst(i, n, order, dup), PatternTz(i, n, tz),
               PatternHasVolume(i, n, vol))]

\* Lengths of the patterned lists: a few rows, and around MIN_ROWS.
PatternLens == (1..(MaxShort + 2)) \cup ((MIN_ROWS - 1)..(MIN_ROWS + MaxExtra))

\* Candle lists by pattern: the orders and ties with every volume, the
\* volume patterns and the time zones in ascending order without ties.
PatternCandles ==
    {PatternList(n, order, dup, "all", "utc") :
        n \in PatternLens, order \in Orders, dup \in BOOLEAN}
    \cup
    {PatternList(n, "asc", FALSE, vol, "utc") :
        n \in PatternLens, vol \in VolumePatterns}
    \cup
    {PatternList(n, "desc", TRUE, "last", "utc") : n \in PatternLens}
    \cup
    {PatternList(n, "asc", FALSE, "all", tz) :
        n \in PatternLens, tz \in {"naive", "mixed", "bad"}}

\* Candle lists of MIN_ROWS or more whose latest candle has a high that is
\* no finite number (the JSON parser and float() accept NaN and Infinity)
NonFiniteCandles ==
    {[PatternList(n, "asc", FALSE, "all", "utc") EXCEPT ![n]["high"] = h] :
        n \in MIN_ROWS..(MIN_ROWS + MaxExtra), h \in {NaN, Inf}}

\* What Kraken may answer: an error, or OHLC rows [time, open, high, low,
\* close, vwap, volume, count]; a row that does not convert is malformed.
KrakenRows(n, order, dup, mal) ==
    [i \in 1..n |->
        [time |-> PatternInst(i, n, order, dup),
         open |-> F(1000 * (50 + i)), high |-> F(1000 * (100 + i)),
         low |-> F(1000 * (40 + i)), close |-> F(1000 * (60 + i)),
         volume |-> F(1000 * (1 + (i % 3))),
         malformed |-> (mal /\ i = 1)]]

KrakenPayloads ==
    {[ok |-> FALSE, rows |-> << >>]}
    \cup
    {[ok |-> TRUE, rows |-> KrakenRows(n, order, dup, FALSE)] :
        n \in {0} \cup ((MIN_ROWS - 1)..(MIN_ROWS + MaxExtra)),
        order \in Orders, dup \in BOOLEAN}
    \cup
    {[ok |-> TRUE, rows |-> KrakenRows(n, "asc", FALSE, TRUE)] :
        n \in {1, MIN_ROWS, MIN_ROWS + 1}}

\* n: int = Query(..., ge=21)
QueryN == {MIN_ROWS, MIN_ROWS + MaxExtra}

\* target_mode: Optional[Literal["level", "delta", "logdiff"]]; "" is None
TargetModes == {"", "level", "delta", "logdiff"}

\* MODEL_TARGET_MODE: any lower-cased string of the environment
ConfiguredModes == {"level", "delta", "ratio"}

\* What model.predict may do: return a float, or raise
RawOutputs == {F(500)}
ModelOutcomes == RawOutputs \cup {[k |-> "raise", v |-> 0]}

\* Anchor dates: a day before, at the start of, around MIN_ROWS days into
\* or after the history, or a string that is no date
AnchorDates ==
    {Str(d, "naive") :
        d \in {0, 1} \cup ((MIN_ROWS - 1)..(MIN_ROWS + MaxExtra + 1))}
    \cup {Str(0, "bad")}

\* -------------------------------------------------------------- state
VARIABLES
    pc,                 \* "idle", or "done" when an operation has returned
    op,                 \* the operation that ran
    args,               \* its arguments, as the caller handed them in
    result,             \* what it returned
    MODEL_TARGET_MODE   \* the configured default target mode

vars == <<pc, op, args, result, MODEL_TARGET_MODE>>

\* The service after start-up: the default mode is read from the environment.
Init ==
    /\ pc = "idle"
    /\ op = ""
    /\ args = << >>
    /\ result = << >>
    /\ MODEL_TARGET_MODE \in ConfiguredModes

\* The library on its own: os.getenv("MODEL_TARGET_MODE", "level")
UnitInit ==
    /\ pc = "idle"
    /\ op = ""
    /\ args = << >>
    /\ result = << >>
    /\ MODEL_TARGET_MODE = "level"

\* Frames a caller may hand to ensure_time_and_sort: of candles, with the
\* time under "timeOpen", under "time", or under neither name.
RenameTime(df, name) ==
    [cols |-> (df.cols \ {"timeOpen"}) \cup {name},
     rows |-> [i \in DOMAIN df.rows |->
                 [c \in (df.cols \ {"timeOpen"}) \cup {name} |->
                    df.rows[i][IF c = name THEN "timeOpen" ELSE c]]]]

\* df.drop(columns=[c])
DropColumn(df, c) ==
    [cols |-> df.cols \ {c},
     rows |-> [i \in DOMAIN df.rows |-> [d \in df.cols \ {c} |-> df.rows[i][d]]]]

\* The normalized series of a candle list: what ensure_time_and_sort may
\* return for it.
NormalizedOf(cs) ==
    {o.df : o \in {x \in ensure_time_and_sort(DataFrame(cs), "timeOpen") : x.ok}}

\* ensure_time_and_sort(df) called on a caller's frame
Call_normalize ==
    /\ pc = "idle"
    /\ \E cs \in FreeCandles \cup PatternCandles,
          name \in {"timeOpen", "time", "when"} :
         LET df == IF cs = << >> THEN DataFrame(cs)
                   ELSE RenameTime(DataFrame(cs), name)
         IN  /\ args' = [df |-> df]
             /\ result' \in ensure_time_and_sort(df, "timeOpen")
    /\ pc' = "done"
    /\ op' = "ensure_time_and_sort"
    /\ UNCHANGED MODEL_TARGET_MODE

\* _prepare_features(df) called on a normalized series, with or without
\* a volume column
Call_prepare ==
    /\ pc = "idle"
    /\ \E cs \in FreeCandles \cup PatternCandles, keepVolume \in BOOLEAN :
         \E n0 \in NormalizedOf(cs) :
           LET df == IF keepVolume THEN n0 ELSE DropColumn(n0, "volume")
           IN  /\ args' = [df |-> df]
               /\ result' \in _prepare_features(df)
    /\ pc' = "done"
    /\ op' = "_prepare_features"
    /\ UNCHANGED MODEL_TARGET_MODE

\* Arguments _invert_prediction may be called with
YhatRaws == {F(500), F(0), F(-1000), F(2000), NaN, Inf, NInf}
LastHighs == {None, NaN, Inf, NInf, F(0), F(-2000), F(101000), F(123000)}
ModeStrings == {"level", "delta", "logdiff", "ratio", ""}

\* _invert_prediction(yhat_raw, last_high, mode) called
Call_invert ==
    /\ pc = "idle"
    /\ \E yhat_raw \in YhatRaws,
          last_high \in LastHighs, mode \in ModeStrings :
         /\ args' = [yhat_raw |-> yhat_raw, last_high |-> last_high, mode |-> mode]
         /\ result' = _invert_prediction(yhat_raw, last_high, mode)
    /\ pc' = "done"
    /\ op' = "_invert_prediction"
    /\ UNCHANGED MODEL_TARGET_MODE

\* POST /predict
Predict ==
    /\ pc = "idle"
    /\ \E candles \in PatternCandles \cup NonFiniteCandles,
          target_mode \in TargetModes, outcome \in ModelOutcomes :
         /\ args' = [candles |-> candles, target_mode |-> target_mode,
                     outcome |-> outcome]
         /\ result' \in predict(candles, target_mode, MODEL_TARGET_MODE, outcome)
    /\ pc' = "done"
    /\ op' = "predict"
    /\ UNCHANGED MODEL_TARGET_MODE

\* GET /predict/sol
PredictSol ==
    /\ pc = "idle"
    /\ \E payload \in KrakenPayloads, n \in QueryN,
          target_mode \in TargetModes, outcome \in ModelOutcomes :
         /\ args' = [payload |-> payload, n |-> n, target_mode |-> target_mode,
                     outcome |-> outcome]
         /\ result' \in predict_sol(payload, n, target_mode, MODEL_TARGET_MODE,
                                    outcome)
    /\ pc' = "done"
    /\ op' = "predict_sol"
    /\ UNCHANGED MODEL_TARGET_MODE

\* GET /predict/sol/at
PredictSolAt ==
    /\ pc = "idle"
    /\ \E date \in AnchorDates, payload \in KrakenPayloads, n \in QueryN,
          target_mode \in TargetModes, outcome \in ModelOutcomes :
         /\ args' = [date |-> date, payload |-> payload, n |-> n,
                     target_mode |-> target_mode, outcome |-> outcome]
         /\ result' \in predict_sol_at(date, payload, n, target_mode,
                                       MODEL_TARGET_MODE, outcome)
    /\ pc' = "done"
    /\ op' = "predict_sol_at"
    /\ UNCHANGED MODEL_TARGET_MODE

\* The operation has returned; nothing of it outlives the request.
Return ==
    /\ pc = "done"
    /\ pc' = "idle"
    /\ op' = ""
    /\ args' = << >>
    /\ result' = << >>
    /\ UNCHANGED MODEL_TARGET_MODE

\* The library's functions, called on their own
UnitNext ==
    \/ Call_normalize
    \/ Call_prepare
    \/ Call_invert
    \/ Return

UnitSpec == UnitInit /\ [][UnitNext]_vars

\* The service's requests
Next ==
    \/ Predict
    \/ PredictSol
    \/ PredictSolAt
    \/ Return

Spec == Init /\ [][Next]_vars

\* ------------------------------------------------------------- claims
Normalized == op = "ensure_time_and_sort"
Prepared == op = "_prepare_features"
Inverted == op = "_invert_prediction"

\* The candle of a row: its instant and its prices, whatever the form of
\* its time value and whatever columns were added.
CandleOf(row, time_col) ==
    [inst |-> row[time_col].inst, open |-> row["open"], high |-> row["high"],
     low |-> row["low"], close |-> row["close"], volume |-> row["volume"]]

Occurrences(rows, time_col, c) ==
    Cardinality({i \in DOMAIN rows : CandleOf(rows[i], time_col) = c})

\* The column of the caller's frame that holds the time
TimeColOf(df) == IF "timeOpen" \in df.cols THEN "timeOpen" ELSE "time"

WellFormed(df) ==
    /\ "volume" \in df.cols
    /\ \A i \in DOMAIN df.rows :
         \A c \in OHLC \cup {"volume"} : isfinite(df.rows[i][c])

\* C1 (as claimed): over a normalized series of well-formed candles,
\* feature building leaves no usable row when there are exactly 20
\* candles, and exactly one, the row of the 21st candle, when there are
\* exactly 21.
C1_MinimumHistory ==
    (Prepared /\ WellFormed(args.df) /\ result.ok) =>
        /\ Len(args.df.rows) = MIN_ROWS - 1 => result.X.rows = << >>
        /\ Len(args.df.rows) = MIN_ROWS => result.kept = <<MIN_ROWS>>

\* C2: whenever ensure_time_and_sort returns a frame, its rows are in
\* non-decreasing order of timestamp and are the candles of the input,
\* each as many times as in the input, none added and none dropped.
C2_SortedPermutation ==
    (Normalized /\ result.ok) =>
        LET in == args.df.rows
            out == result.df.rows
            tc == TimeColOf(args.df)
        IN  /\ Len(out) = Len(in)
            /\ \A i, j \in DOMAIN out :
                 i < j => out[i]["timeOpen"].inst <= out[j]["timeOpen"].inst
            /\ \A i \in DOMAIN in :
                 Occurrences(out, "timeOpen", CandleOf(in[i], tc))
                    = Occurrences(in, tc, CandleOf(in[i], tc))
            /\ \A i \in DOMAIN out :
                 Occurrences(in, tc, CandleOf(out[i], "timeOpen")) > 0

\* C2's case: an input of three or more candles that is out of order has
\* been sorted.
C2_Witness ==
    /\ Normalized
    /\ result.ok
    /\ Len(args.df.rows) >= 3
    /\ \E i, j \in DOMAIN args.df.rows :
         /\ i < j
         /\ args.df.rows[i][TimeColOf(args.df)].inst
               > args.df.rows[j][TimeColOf(args.df)].inst

\* C3 (as claimed): the sort is stable: of two rows with equal timestamps
\* the one earlier in the input is earlier in the output.
C3_StableSort ==
    (Normalized /\ result.ok) =>
        \A i, j \in DOMAIN result.df.rows :
            (i < j /\ result.df.rows[i]["timeOpen"].inst
                        = result.df.rows[j]["timeOpen"].inst)
                => result.indexer[i] < result.indexer[j]

\* The number of candles of the normalized frame at or before the anchor
AtOrBefore(df, date) ==
    Cardinality({i \in DOMAIN df.rows : df.rows[i]["timeOpen"].inst <= date.inst})

\* A request of predict_sol_at that came to resolve its window
Windowed ==
    /\ op = "predict_sol_at"
    /\ result.df # NoFrame
    /\ args.date.tz # "bad"

\* C4: with k the number of normalized candles at or before the anchor,
\* predict_sol_at answers 404 (no data before the anchor) when k = 0 and
\* 400 (insufficient history) when 1 <= k < 21; when k >= 21 the cut is
\* exactly the first k candles of the normalized series, in order, none of
\* them later than the anchor, and neither of these two failures is given.
C4_WindowResolution ==
    Windowed =>
        LET k == AtOrBefore(result.df, args.date)
        IN  /\ k = 0 =>
                 /\ result.resp.status = 404
                 /\ result.resp.err = "NoDataBeforeAnchorError"
            /\ (1 <= k /\ k < MIN_ROWS) =>
                 /\ result.resp.status = 400
                 /\ result.resp.err = "InsufficientHistoryError"
            /\ k >= MIN_ROWS =>
                 /\ result.df_cut.rows = SubSeq(result.df.rows, 1, k)
                 /\ \A i \in DOMAIN result.df_cut.rows :
                      result.df_cut.rows[i]["timeOpen"].inst <= args.date.inst
                 /\ result.resp.err \notin
                       {"NoDataBeforeAnchorError", "InsufficientHistoryError"}
                 /\ result.resp.status = 200 => result.resp.history_rows_used = k

\* C4's case: an anchor that cuts off later candles and keeps 21 or more,
\* answered with a prediction.
C4_Witness ==
    /\ Windowed
    /\ AtOrBefore(result.df, args.date) >= MIN_ROWS
    /\ AtOrBefore(result.df, args.date) < Len(result.df.rows)
    /\ result.resp.status = 200

\* C5: _invert_prediction fails with InversionError under delta and
\* logdiff whenever last_high is None or not finite, whatever the raw
\* output, and succeeds under level whatever last_high is.
C5_DecodeFailure ==
    Inverted =>
        /\ (args.mode \in {"delta", "logdiff"} /\ ~isfinite(args.last_high)) =>
             (~result.ok /\ result.err = InversionError)
        /\ args.mode = "level" => result.ok

\* C5's case: logdiff without a last high has failed.
C5_Witness ==
    /\ Inverted
    /\ args.mode = "logdiff"
    /\ args.last_high = None
    /\ ~result.ok

\* C6: for a last_high > 0, _invert_prediction returns the raw output
\* under level, last_high + raw under delta and exp(raw) * last_high under
\* logdiff.
C6_DecodeValues ==
    (Inverted /\ isfinite(args.last_high) /\ args.last_high.v > 0) =>
        /\ args.mode = "level" =>
             (result.ok /\ result.value = args.yhat_raw)
        /\ args.mode = "delta" =>
             (result.ok /\ result.value = FAdd(args.last_high, args.yhat_raw))
        /\ args.mode = "logdiff" =>
             (result.ok /\ result.value = FMul(FExp(args.yhat_raw), args.last_high))

\* C6's case: logdiff of raw 0.5 on a last high of 101 gave more than 101,
\* and less than twice as much.
C6_Witness ==
    /\ Inverted
    /\ args.mode = "logdiff"
    /\ args.yhat_raw = F(500)
    /\ args.last_high = F(101000)
    /\ result.ok
    /\ result.value.v > (101000 * 3) \div 2
    /\ result.value.v < 101000 * 2

\* C7 (as claimed): a mode other than level, delta and logdiff fails with
\* UnsupportedModeError whatever the raw output and last_high are.
C7_UnknownMode ==
    (Inverted /\ args.mode \notin {"level", "delta", "logdiff"}) =>
        (~result.ok /\ result.err = UnsupportedModeError)

\* C8 (as claimed): ensure_time_and_sort leaves the caller's frame as it
\* was, whether it returns or raises.
C8_NoMutation ==
    Normalized => result.caller = args.df

\* C9 (as claimed): timestamps that parse, naive or explicitly UTC, alone
\* or mixed in one input, are all normalized to UTC-aware values of their
\* instants.
C9_TimezoneUniform ==
    (/\ Normalized
     /\ args.df.cols \cap {"timeOpen", "time"} # {}
     /\ \A i \in DOMAIN args.df.rows :
          args.df.rows[i][TimeColOf(args.df)].tz # "bad") =>
        /\ result.ok
        /\ \A i \in DOMAIN result.df.rows :
             /\ result.df.rows[i]["timeOpen"].repr = "ts"
             /\ result.df.rows[i]["timeOpen"].tz = "utc"

NoVolume(candles) == \A i \in DOMAIN candles : candles[i].volume = None

\* C10: a prediction over candles none of which has a volume ends with
\* InsufficientHistoryError (400) and model.predict is not called,
\* whatever the number of candles; volume_sma21 is missing in every row
\* the feature builder makes of them.
C10_NoVolume ==
    (op = "predict" /\ NoVolume(args.candles)) =>
        /\ result.status = 400
        /\ result.err = "InsufficientHistoryError"
        /\ result.calls = << >>
        /\ \A b \in build_features_from_ohlcv(DataFrame(args.candles)) :
             b.ok => \A t \in DOMAIN b.df.rows :
                        isna(b.df.rows[t]["volume_sma21"])

\* C10's case: 21 or more candles without volume were refused.
C10_Witness ==
    /\ op = "predict"
    /\ Len(args.candles) >= MIN_ROWS
    /\ NoVolume(args.candles)
    /\ result.status = 400

\* A prediction request that has been answered, and its response
Requested == op \in {"predict", "predict_sol", "predict_sol_at"}
Resp == IF op = "predict_sol_at" THEN result.resp ELSE result

\* The failures of the stages before the model: malformed input (an
\* unparseable timestamp or date, a missing column), too little history,
\* no candle at or before the anchor
InputFailures ==
    {"MalformedInputError", "InvalidDate", "ValueError", "TypeError",
     "KeyError", "InsufficientHistoryError", "NoDataBeforeAnchorError"}

\* C11: a request that ends with a malformed-input, insufficient-history
\* or no-data-before-anchor failure has not called model.predict, and a
\* request that ends with InversionError or UnsupportedModeError has
\* called it, once, before failing.
C11_StageOrder ==
    Requested =>
        /\ Resp.err \in InputFailures => Resp.calls = << >>
        /\ Resp.err \in {InversionError, UnsupportedModeError} =>
             /\ Len(Resp.calls) = 1
             /\ Resp.status = 400

\* C11's case: a delta request whose latest high is no finite number has
\* failed with InversionError after the model returned an output.
C11_Witness ==
    /\ op = "predict"
    /\ ~isfinite(args.candles[Len(args.candles)].high)
    /\ args.outcome.k # "raise"
    /\ Resp.err = InversionError
    /\ Len(Resp.calls) = 1

\* C12: a request calls model.predict at most once; when that call
\* raises, the request ends with ModelInferenceError (500) after the one
\* call, nothing is decoded and no prediction is returned.
C12_SingleInvocation ==
    Requested =>
        /\ Len(Resp.calls) <= 1
        /\ (Len(Resp.calls) >= 1 /\ args.outcome.k = "raise") =>
             /\ Len(Resp.calls) = 1
             /\ Resp.status = 500
             /\ Resp.err = "ModelInferenceError"
             /\ isna(Resp.predicted_high)
             /\ Resp.target_mode = ""
             /\ Resp.feature_vector_tail = NoRow
        /\ Resp.err = "ModelInferenceError" =>
             (Len(Resp.calls) = 1 /\ args.outcome.k = "raise")

\* C12's case: the model was called in a windowed request and raised.
C12_Witness ==
    /\ op = "predict_sol_at"
    /\ args.outcome.k = "raise"
    /\ Len(Resp.calls) = 1
    /\ Resp.err = "ModelInferenceError"

\* C13: a successful prediction is decoded in the request's target_mode
\* when one is given and in MODEL_TARGET_MODE otherwise, and the
\* target_mode it reports is the mode predicted_high was computed in.
C13_ModeUsed ==
    (Requested /\ Resp.status = 200) =>
        LET used == IF args.target_mode # "" THEN args.target_mode
                    ELSE MODEL_TARGET_MODE
        IN  /\ Resp.target_mode = used
            /\ Resp.predicted_high =
                  (CASE used = "level" -> args.outcome
                     [] used = "delta" ->
                          FAdd(Resp.last_known_high, args.outcome)
                     [] used = "logdiff" ->
                          FMul(FExp(args.outcome), Resp.last_known_high))

\* C13's case: a request that overrides the configured mode was answered
\* in the mode it asked for.
C13_Witness ==
    /\ Requested
    /\ Resp.status = 200
    /\ args.target_mode = "delta"
    /\ MODEL_TARGET_MODE # "delta"
    /\ Resp.target_mode = "delta"
    /\ Resp.predicted_high = FAdd(Resp.last_known_high, args.outcome)

\* The candles a request is about
RequestCandles == IF op = "predict" THEN args.candles ELSE args.payload.rows

\* C14 (as claimed): in a successful prediction the feature row given to
\* the model and reported is the row of the candle whose high is reported
\* as last_known_high, the last candle of the series, also when candles
\* lack a volume.
C14_LastCandleRow ==
    (Requested /\ Resp.status = 200) =>
        /\ Resp.calls = <<Resp.feature_vector_tail>>
        /\ \E i \in DOMAIN RequestCandles :
             /\ RequestCandles[i].high = Resp.last_known_high
             /\ \A c \in {"open", "low", "close"} :
                  RequestCandles[i][c] = Resp.feature_vector_tail[c]

====
